---- MODULE Spec2Model ----
(***************************************************************************)
(* State-machine model of the wasm binding layer in src/src/lib.rs:        *)
(* AppConfig (constructor, setters), Wormhole::get_wh_config,              *)
(* Wormhole::connect_without_code and Wormhole::connect_with_code, the     *)
(* result types WelcomeAndHandshake / WelcomeAndWormhole and the error     *)
(* conversion.  The wrapped crate magic_wormhole is not part of src/; the  *)
(* two futures it hands back are modelled from the handshake state machine *)
(* of spec.md section 4.5 (the Lib* definitions).                          *)
(***************************************************************************)
EXTENDS Integers, Sequences, FiniteSets, TLC

\* ------------------------------------------------------------------ bounds

\* Number of connect_* calls a behaviour may make.
MaxCalls == 2

\* ------------------------------------------------------------- input sets

None == "None"

AppIds == {"app.a", "app.b"}
Urls == {"ws://r1", "ws://r2"}
Codes == {"7-crossover-clockwork", "4-purple"}
CodeLengths == {1, 2}
Banners == {None, "motd"}
OptBools == {None, "Some(false)", "Some(true)"}

\* Number of secret words of a code (the segments after the nameplate).
WordCount(code) == IF code = "7-crossover-clockwork" THEN 2 ELSE 1

Range(s) == {s[i] : i \in DOMAIN s}

\* ------------------------------------------------------- AppConfig (26-64)

\* AppConfig::new: the placeholder _app_version is always "".
AppConfig_new(id, rendezvous_url) ==
    [id |-> id, rendezvous_url |-> rendezvous_url, _app_version |-> ""]

\* AppConfig::set_id: assigns id and nothing else.
set_id(config, id) == [config EXCEPT !.id = id]

\* AppConfig::set_rendezvous_url: assigns rendezvous_url and nothing else.
set_rendezvous_url(config, rendezvous_url) ==
    [config EXCEPT !.rendezvous_url = rendezvous_url]

\* ----------------------------------------------- Wormhole::get_wh_config

\* The unit struct AppVersion {} of the wrapped crate.
AppVersionEmpty == "AppVersion{}"

NoWhConfig == [id |-> None, rendezvous_url |-> None, app_version |-> None]

get_wh_config_swapped(config) ==
    [id |-> config.rendezvous_url,
     rendezvous_url |-> config.id,
     app_version |-> config._app_version]

\* Clones id and rendezvous_url; app_version is the constant AppVersion {}.
get_wh_config(config) ==
    [id |-> config.id,
     rendezvous_url |-> config.rendezvous_url,
     app_version |-> AppVersionEmpty]

\* ------------------------------------------------------------ conversions

unwrap_or_true(opt) == IF opt = None THEN TRUE ELSE opt = "Some(true)"

ignore_flag(opt) == FALSE

\* expect_claimed_nameplate.unwrap_or(false)
expect_claimed_nameplate_of(opt) ==
    IF opt = None THEN FALSE ELSE opt = "Some(true)"

\* WormholeError(#[from] WhError), Display writes the inner error, and
\* From<WormholeError> for JsValue is value.to_string().
WormholeError_to_JsValue(wh_error) == wh_error

\* ------------------------------------------------------------------ state

VARIABLES
    cfg,            \* the caller's AppConfig object
    set_rejected,   \* a setter was refused because the object was borrowed
    call,           \* the connect_* call in hand: arguments, position, result
    ncalls,         \* connect_* calls made so far
    peer_claimed    \* codes whose nameplate a peer has claimed on the relay

vars == <<cfg, set_rejected, call, ncalls, peer_claimed>>

NoConfig == [id |-> None, rendezvous_url |-> None, _app_version |-> None]
NoWelcome == [welcome |-> None, code |-> None]
NoRet == [tag |-> "none", welcome |-> NoWelcome, handshake |-> None,
          wormhole |-> None, err |-> None]

IdleCall ==
    [kind |-> "none",           \* "without" | "with"
     pc |-> "idle",             \* idle -> created -> awaiting -> returned
     code_length |-> 0,
     code |-> None,             \* the code argument of connect_with_code
     expect |-> None,           \* the Option<bool> argument
     cfg_at_call |-> NoConfig,  \* the AppConfig's fields when the call was made
     wh_config |-> NoWhConfig,  \* the core config moved into the library
     lib_called |-> 0,          \* library entry-point invocations
     lib_flag |-> FALSE,        \* expect_claimed_nameplate as passed on
     machine |-> "Idle",        \* handshake state machine of the library
     history |-> <<>>,          \* states entered, in order
     lib_welcome |-> NoWelcome, \* the library's WormholeWelcome
     lib_err |-> None,
     relay_ops |-> <<>>,        \* relay operations performed by the library
     unclaimed_at_check |-> FALSE,
     ret |-> NoRet,
     hs |-> "none",             \* Handshake future: unpolled | awaited | dropped
     freed |-> FALSE]

\* ---------------------------------------------------------- the async fns

\* A call's future holds `config: &AppConfig` from its creation until it
\* resolves; set_id / set_rendezvous_url need `&mut self`.
Borrowed == call.pc \in {"created", "awaiting"}

AwaitsHandshakeBeforeReturn == TRUE

\* connect_without_code boxes the handshake future (Box::pin) and returns it
\* without awaiting it.
AwaitsHandshake == FALSE

\* The library future is being polled: the wrapper awaits the
\* entry point's future; the remaining transitions of connect_without_code
\* live in the returned handshake future, polled only if something awaits it.
Driven ==
    /\ call.pc = "awaiting"
    /\ \/ call.kind = "with"
       \/ call.machine = "Idle"
       \/ AwaitsHandshake

\* `Wh::connect_without_code(config, code_length).await` has resolved.
connect_without_code_ready ==
    IF AwaitsHandshake
    THEN call.machine \in {"Established", "Failed"}
    ELSE call.machine \in {"CodeEstablished", "Failed"}

\* `Wh::connect_with_code(config, code, flag).await` has resolved.
connect_with_code_ready == call.machine \in {"Established", "Failed"}

WormholeWelcome_of(lib_welcome) ==
    [welcome |-> lib_welcome.welcome, code |-> lib_welcome.code]

connect_without_code_partial(k) ==
    [tag |-> "Ok", welcome |-> WormholeWelcome_of(k.lib_welcome),
     handshake |-> "Handshake", wormhole |-> None,
     err |-> IF k.machine = "Failed"
             THEN WormholeError_to_JsValue(k.lib_err) ELSE None]

\* Lines 143-151: `?` turns the library's Err into the only thing returned;
\* otherwise Ok(WelcomeAndHandshake(WormholeWelcome{..}, Handshake(..))).
connect_without_code_result(k) ==
    IF k.machine = "Failed"
    THEN [NoRet EXCEPT !.tag = "Err",
                       !.err = WormholeError_to_JsValue(k.lib_err)]
    ELSE [tag |-> "Ok", welcome |-> WormholeWelcome_of(k.lib_welcome),
          handshake |-> "Handshake", wormhole |-> None, err |-> None]

connect_with_code_swallow(k) ==
    [tag |-> "Ok", welcome |-> WormholeWelcome_of(k.lib_welcome),
     handshake |-> None, wormhole |-> "Wh", err |-> None]

\* Lines 167-175: `?` on the library's result, then
\* Ok(WelcomeAndWormhole(WormholeWelcome{..}, wh)).
connect_with_code_result(k) ==
    IF k.machine = "Failed"
    THEN [NoRet EXCEPT !.tag = "Err",
                       !.err = WormholeError_to_JsValue(k.lib_err)]
    ELSE [tag |-> "Ok", welcome |-> WormholeWelcome_of(k.lib_welcome),
          handshake |-> None, wormhole |-> "Wh", err |-> None]

LibConfigLive == get_wh_config(cfg)

\* The configuration the running handshake works with: the
\* WhAppConfig built at line 142/166 (owned clones) and moved into the library.
LibConfig == call.wh_config

\* ------------------------------------------------------------------- Init

Init ==
    /\ cfg \in {AppConfig_new(id, url) : id \in AppIds, url \in Urls}
    /\ set_rejected = FALSE
    /\ call = IdleCall
    /\ ncalls = 0
    /\ peer_claimed = {}

\* ---------------------------------------------------------------- actions

\* AppConfig::set_id(&mut self): refused, leaving the object as it is, while
\* a pending call's future still holds its shared borrow of the object.
SetId(id) ==
    /\ IF Borrowed
       THEN /\ set_rejected' = TRUE
            /\ UNCHANGED cfg
       ELSE /\ cfg' = set_id(cfg, id)
            /\ UNCHANGED set_rejected
    /\ UNCHANGED <<call, ncalls, peer_claimed>>

\* AppConfig::set_rendezvous_url, refused while a pending call borrows it.
SetRendezvousUrl(url) ==
    /\ IF Borrowed
       THEN /\ set_rejected' = TRUE
            /\ UNCHANGED cfg
       ELSE /\ cfg' = set_rendezvous_url(cfg, url)
            /\ UNCHANGED set_rejected
    /\ UNCHANGED <<call, ncalls, peer_claimed>>

\* A new call is made once the one in hand has resolved; its result object
\* is left behind as it is.
CanStart ==
    /\ call.pc \in {"idle", "returned"}
    /\ ncalls < MaxCalls

\* Calling the async fn creates its future; nothing runs until it is polled.
ConnectWithoutCodeCall(code_length) ==
    /\ CanStart
    /\ call' = [IdleCall EXCEPT !.kind = "without", !.pc = "created",
                                 !.code_length = code_length,
                                 !.cfg_at_call = cfg]
    /\ ncalls' = ncalls + 1
    /\ UNCHANGED <<cfg, set_rejected, peer_claimed>>

ConnectWithCodeCall(code, expect) ==
    /\ CanStart
    /\ call' = [IdleCall EXCEPT !.kind = "with", !.pc = "created",
                                 !.code = code, !.expect = expect,
                                 !.cfg_at_call = cfg]
    /\ ncalls' = ncalls + 1
    /\ UNCHANGED <<cfg, set_rejected, peer_claimed>>

\* First poll of connect_without_code: line 142, then the library's entry
\* point is invoked and awaited (line 143).
ConnectWithoutCodePoll ==
    /\ call.kind = "without"
    /\ call.pc = "created"
    /\ call' = [call EXCEPT !.pc = "awaiting",
                             !.wh_config = get_wh_config(cfg),
                             !.lib_called = @ + 1]
    /\ UNCHANGED <<cfg, set_rejected, ncalls, peer_claimed>>

\* First poll of connect_with_code: lines 165-167.
ConnectWithCodePoll ==
    /\ call.kind = "with"
    /\ call.pc = "created"
    /\ call' = [call EXCEPT !.pc = "awaiting",
                             !.lib_flag = expect_claimed_nameplate_of(call.expect),
                             !.wh_config = get_wh_config(cfg),
                             !.lib_called = @ + 1]
    /\ UNCHANGED <<cfg, set_rejected, ncalls, peer_claimed>>

\* connect_without_code resolves: lines 143-151.
ConnectWithoutCodeReturn ==
    /\ call.kind = "without"
    /\ call.pc = "awaiting"
    /\ connect_without_code_ready
    /\ LET r == connect_without_code_result(call) IN
       call' = [call EXCEPT !.pc = "returned",
                             !.ret = r,
                             !.hs = IF r.handshake = None THEN "none"
                                    ELSE IF AwaitsHandshake THEN "awaited"
                                    ELSE "unpolled"]
    /\ UNCHANGED <<cfg, set_rejected, ncalls, peer_claimed>>

\* connect_with_code resolves: lines 167-175.
ConnectWithCodeReturn ==
    /\ call.kind = "with"
    /\ call.pc = "awaiting"
    /\ connect_with_code_ready
    /\ call' = [call EXCEPT !.pc = "returned",
                             !.ret = connect_with_code_result(call)]
    /\ UNCHANGED <<cfg, set_rejected, ncalls, peer_claimed>>

\* The only operation the exported result types carry: WelcomeAndHandshake,
\* Handshake and WelcomeAndWormhole are tuple structs with private fields and
\* no methods, so the generated classes offer free() and nothing else.
\* Freeing a WelcomeAndHandshake drops the boxed handshake future.
Free ==
    /\ call.pc = "returned"
    /\ call.ret.tag = "Ok"
    /\ ~call.freed
    /\ call' = [call EXCEPT !.freed = TRUE,
                             !.hs = IF @ = "unpolled" THEN "dropped" ELSE @]
    /\ UNCHANGED <<cfg, set_rejected, ncalls, peer_claimed>>

\* ------------------------------------------- the wrapped library (spec 4.5)

\* The code the handshake runs on.
LibCode ==
    IF call.kind = "with" THEN call.code ELSE call.lib_welcome.code

\* Rendezvous connection: the server Welcome is received.
LibConnect(banner) ==
    /\ Driven
    /\ call.machine = "Idle"
    /\ call.relay_ops = <<>>
    /\ call' = [call EXCEPT !.lib_welcome = [welcome |-> banner, code |-> None],
                             !.relay_ops = <<"connect">>]
    /\ UNCHANGED <<cfg, set_rejected, ncalls, peer_claimed>>

\* Idle -> CodeEstablished: generate a code (connect_without_code) or take
\* the given one (connect_with_code); with expect_claimed_nameplate the
\* nameplate must already be claimed, else UnexpectedNameplateState.
LibCodeEstablished(code) ==
    /\ Driven
    /\ call.machine = "Idle"
    /\ call.relay_ops = <<"connect">>
    /\ IF call.kind = "with"
       THEN code = call.code
       ELSE WordCount(code) = call.code_length
    /\ IF call.kind = "with" /\ call.lib_flag /\ code \notin peer_claimed
       THEN call' = [call EXCEPT !.machine = "Failed",
                                  !.history = Append(@, "Failed"),
                                  !.lib_err = "UnexpectedNameplateState",
                                  !.unclaimed_at_check = TRUE,
                                  !.relay_ops = @ \o <<"claim">>]
       ELSE call' = [call EXCEPT !.machine = "CodeEstablished",
                                  !.history = Append(@, "CodeEstablished"),
                                  !.lib_welcome = [@ EXCEPT !.code = code],
                                  !.unclaimed_at_check = code \notin peer_claimed,
                                  !.relay_ops = @ \o <<"claim", "open">>]
    /\ UNCHANGED <<cfg, set_rejected, ncalls, peer_claimed>>

\* CodeEstablished -> PakeExchanged: needs the peer's PAKE message.
LibPakeExchanged ==
    /\ Driven
    /\ call.machine = "CodeEstablished"
    /\ LibCode \in peer_claimed
    /\ call' = [call EXCEPT !.machine = "PakeExchanged",
                             !.history = Append(@, "PakeExchanged"),
                             !.relay_ops = @ \o <<"add:pake">>]
    /\ UNCHANGED <<cfg, set_rejected, ncalls, peer_claimed>>

\* PakeExchanged -> VersionExchanged.
LibVersionExchanged ==
    /\ Driven
    /\ call.machine = "PakeExchanged"
    /\ call' = [call EXCEPT !.machine = "VersionExchanged",
                             !.history = Append(@, "VersionExchanged"),
                             !.relay_ops = @ \o <<"add:version">>]
    /\ UNCHANGED <<cfg, set_rejected, ncalls, peer_claimed>>

\* VersionExchanged -> Established.
LibEstablished ==
    /\ Driven
    /\ call.machine = "VersionExchanged"
    /\ call' = [call EXCEPT !.machine = "Established",
                             !.history = Append(@, "Established")]
    /\ UNCHANGED <<cfg, set_rejected, ncalls, peer_claimed>>

\* The error a failing transition out of `machine` reports.
LibErrorAt(machine) ==
    CASE machine = "Idle" -> "ConnectError"
      [] machine = "CodeEstablished" -> "PakeError"
      [] machine = "PakeExchanged" -> "AuthenticationError"
      [] OTHER -> "RendezvousError"

\* Any transition may fail: the machine moves to Failed, nothing is retried.
LibFail ==
    /\ Driven
    /\ call.machine \notin {"Established", "Failed"}
    /\ call' = [call EXCEPT !.machine = "Failed",
                             !.history = Append(@, "Failed"),
                             !.lib_err = LibErrorAt(call.machine)]
    /\ UNCHANGED <<cfg, set_rejected, ncalls, peer_claimed>>

\* A peer holding `code` claims its nameplate on the relay.
PeerArrives(code) ==
    /\ code \notin peer_claimed
    /\ peer_claimed' = peer_claimed \cup {code}
    /\ UNCHANGED <<cfg, set_rejected, call, ncalls>>

\* ------------------------------------------------------------------- Next

Wrapper ==
    \/ \E id \in AppIds : SetId(id)
    \/ \E url \in Urls : SetRendezvousUrl(url)
    \/ \E n \in CodeLengths : ConnectWithoutCodeCall(n)
    \/ \E code \in Codes, e \in OptBools : ConnectWithCodeCall(code, e)
    \/ ConnectWithoutCodePoll
    \/ ConnectWithCodePoll
    \/ ConnectWithoutCodeReturn
    \/ ConnectWithCodeReturn
    \/ Free

Library ==
    \/ \E b \in Banners : LibConnect(b)
    \/ \E code \in Codes : LibCodeEstablished(code)
    \/ LibPakeExchanged
    \/ LibVersionExchanged
    \/ LibEstablished
    \/ LibFail

Environment == \E code \in Codes : PeerArrives(code)

Next == Wrapper \/ Library \/ Environment

Spec == Init /\ [][Next]_vars

\* The executor keeps polling a spawned call, the library and the relay keep
\* making progress (possibly into Failed) and peers keep arriving; what the
\* caller does next (setters, new calls, free) is up to the caller.
FairSpec ==
    /\ Spec
    /\ WF_vars(ConnectWithoutCodePoll \/ ConnectWithCodePoll)
    /\ WF_vars(ConnectWithoutCodeReturn \/ ConnectWithCodeReturn)
    /\ WF_vars(Library)
    /\ WF_vars(Environment)

\* ----------------------------------------------------------------- claims

\* C1: connect_without_code resolves as soon as the library reports the code
\* established: the return is enabled in CodeEstablished whether or not a
\* peer has arrived, and whenever it has returned Ok the machine has entered
\* CodeEstablished and nothing else, no PAKE message was sent, the handshake
\* future has not been polled, and the Welcome carries the generated code.
C1_ReturnsAtCodeEstablished ==
    call.kind = "without" =>
        /\ (call.pc = "awaiting" /\ call.machine = "CodeEstablished")
               => ENABLED ConnectWithoutCodeReturn
        /\ call.ret.tag = "Ok" =>
               /\ call.history = <<"CodeEstablished">>
               /\ "add:pake" \notin Range(call.relay_ops)
               /\ call.hs \in {"unpolled", "dropped"}
               /\ call.ret.handshake = "Handshake"
               /\ call.ret.welcome.code = call.lib_welcome.code
               /\ call.ret.welcome.code \in Codes
               /\ WordCount(call.ret.welcome.code) = call.code_length

\* connect_without_code has returned Ok and no peer holds the code yet.
C1_Witness ==
    /\ call.kind = "without"
    /\ call.ret.tag = "Ok"
    /\ call.hs = "unpolled"
    /\ call.ret.welcome.code \notin peer_claimed

\* C2: once connect_without_code has returned its WelcomeAndHandshake and a
\* peer holding the same code has arrived, the pending handshake (unless the
\* caller drops it) is carried on to Established.
C2_HandshakeReachesEstablished ==
    (/\ call.kind = "without"
     /\ call.ret.tag = "Ok"
     /\ call.hs = "unpolled"
     /\ call.ret.welcome.code \in peer_claimed)
        ~> (call.machine = "Established" \/ call.hs = "dropped")

\* C3: connect_with_code has returned Ok only when the machine is Established
\* after CodeEstablished, PakeExchanged and VersionExchanged in that order,
\* and the returned Welcome carries the code passed in.
C3_OkOnlyWhenEstablished ==
    (call.kind = "with" /\ call.ret.tag = "Ok") =>
        /\ call.machine = "Established"
        /\ call.history = <<"CodeEstablished", "PakeExchanged",
                            "VersionExchanged", "Established">>
        /\ call.ret.welcome.code = call.code
        /\ call.ret.wormhole = "Wh"

\* connect_with_code has returned Ok.
C3_Witness ==
    /\ call.kind = "with"
    /\ call.pc = "returned"
    /\ call.ret.tag = "Ok"

\* C4: a call whose handshake failed returns an error and nothing else (no
\* Welcome, no Handshake, no Wormhole), the machine is in Failed, and the
\* library was entered once: the failed transition was not tried again.
C4_FailureIsErrorOnly ==
    /\ (call.pc = "returned" /\ call.machine = "Failed") => call.ret.tag = "Err"
    /\ call.ret.tag = "Err" =>
           /\ call.machine = "Failed"
           /\ call.ret.err = WormholeError_to_JsValue(call.lib_err)
           /\ call.ret.welcome = NoWelcome
           /\ call.ret.handshake = None
           /\ call.ret.wormhole = None
           /\ call.hs = "none"
           /\ call.lib_called = 1
           /\ Cardinality({i \in DOMAIN call.history : call.history[i] = "Failed"}) = 1
           /\ call.history[Len(call.history)] = "Failed"

\* connect_without_code has returned an error.
C4_Witness ==
    /\ call.kind = "without"
    /\ call.pc = "returned"
    /\ call.ret.tag = "Err"

\* C6: connect_with_code(.., Some(true)) whose nameplate check found no claim
\* fails with UnexpectedNameplateState; after the check no mailbox is opened
\* and no PAKE message is sent, Established is never entered, and the call
\* returns that error.
C6_UnclaimedNameplateFails ==
    (call.kind = "with" /\ call.expect = "Some(true)" /\ call.unclaimed_at_check) =>
        /\ call.machine = "Failed"
        /\ call.lib_err = "UnexpectedNameplateState"
        /\ call.relay_ops = <<"connect", "claim">>
        /\ "Established" \notin Range(call.history)
        /\ call.lib_called = 1
        /\ call.pc = "returned" =>
               /\ call.ret.tag = "Err"
               /\ call.ret.err = "UnexpectedNameplateState"

\* connect_with_code(.., Some(true)) has returned after finding no claim.
C6_Witness ==
    /\ call.kind = "with"
    /\ call.expect = "Some(true)"
    /\ call.unclaimed_at_check
    /\ call.pc = "returned"

\* C7: with expect_claimed_nameplate omitted the library is entered with the
\* flag false, exactly as for an explicit false, and the call never fails
\* with UnexpectedNameplateState.
C7_OmittedFlagIsFalse ==
    (call.kind = "with" /\ call.pc \in {"awaiting", "returned"}
        /\ call.expect \in {None, "Some(false)"}) =>
        /\ call.lib_flag = FALSE
        /\ call.lib_err # "UnexpectedNameplateState"
        /\ call.ret.err # "UnexpectedNameplateState"

\* The flag was omitted, the nameplate was unclaimed, and the handshake went on.
C7_Witness ==
    /\ call.kind = "with"
    /\ call.expect = None
    /\ call.unclaimed_at_check
    /\ call.machine = "Established"

\* C8: the id and rendezvous_url a started handshake works with are those the
\* AppConfig held when the call was made, and a setter step taken while the
\* handshake is in progress changes nothing of the call.
C8_ConfigFixedAtCall ==
    /\ [](call.pc \in {"awaiting", "returned"} =>
            /\ LibConfig.id = call.cfg_at_call.id
            /\ LibConfig.rendezvous_url = call.cfg_at_call.rendezvous_url)
    /\ [][(cfg' # cfg \/ set_rejected' # set_rejected) => call' = call]_vars

\* A setter was refused during a call, and another changed the AppConfig
\* while the returned handshake was still pending.
C8_Witness ==
    /\ set_rejected
    /\ call.hs = "unpolled"
    /\ (cfg.id # call.cfg_at_call.id
        \/ cfg.rendezvous_url # call.cfg_at_call.rendezvous_url)

\* C10: the core config built on the first poll of a call has the id and
\* rendezvous_url the AppConfig holds then and the empty AppVersion; the
\* placeholder _app_version stays "" and no setter step changes both fields.
C10_WhConfigFromAppConfig ==
    [][/\ (call.pc = "created" /\ call'.pc = "awaiting") =>
              call'.wh_config = [id |-> cfg.id,
                                 rendezvous_url |-> cfg.rendezvous_url,
                                 app_version |-> AppVersionEmpty]
       /\ cfg'._app_version = "" /\ cfg._app_version = ""
       /\ (cfg'.id # cfg.id) => (cfg'.rendezvous_url = cfg.rendezvous_url)
      ]_vars

\* A call is under way with a config whose fields were both written by setters
\* after an earlier call.
C10_Witness ==
    /\ ncalls = 2
    /\ call.pc = "awaiting"
    /\ call.wh_config.id = "app.b"
    /\ call.wh_config.rendezvous_url = "ws://r2"
    /\ call.wh_config.app_version = AppVersionEmpty

====
